---- MODULE Spec2Model ----
(***************************************************************************)
(* Model of asgardpy/data/target.py: the translation of FermiTools XML     *)
(* spectral parameters into gammapy parameters, the assembly of the        *)
(* SkyModel of one catalog source and the assignment of models to          *)
(* datasets.                                                               *)
(*                                                                         *)
(* Numbers are exact: a number is n/d * 10^e with d > 0, so that the       *)
(* factors 1e6 and 1e-6 and the reciprocal of the lambda_ convention are   *)
(* kept apart from the raw values.                                         *)
(***************************************************************************)
EXTENDS Integers, Sequences, FiniteSets, TLC

\* Raw numbers of an XML record range over -MaxRaw..MaxRaw.
MaxRaw == 1

RawNums == (0 - MaxRaw)..MaxRaw

\* ------------------------------------------------------------------------
\* Numbers
\* ------------------------------------------------------------------------

\* float(s) of the decimal string s of an XML attribute.
Float(s) == [n |-> s, d |-> 1, e |-> 0]

Abs(i) == IF i < 0 THEN 0 - i ELSE i

Sgn(i) == IF i < 0 THEN 0 - 1 ELSE IF i = 0 THEN 0 ELSE 1

RECURSIVE Pow10(_)
Pow10(k) == IF k = 0 THEN 1 ELSE 10 * Pow10(k - 1)

\* The float constants 1.0e6 and 1.0e-6 of the rescaling.
Mega == [n |-> 1, d |-> 1, e |-> 6]

Micro == [n |-> 1, d |-> 1, e |-> 0 - 6]

Times(a, b) == [n |-> a.n * b.n, d |-> a.d * b.d, e |-> a.e + b.e]

Neg(a) == [a EXCEPT !.n = 0 - a.n]

IsZero(a) == a.n = 0

\* a / b for b # 0 (Python raises ZeroDivisionError for b = 0).
Over(a, b) ==
    [n |-> a.n * b.d * Sgn(b.n), d |-> a.d * Abs(b.n), e |-> a.e - b.e]

\* a <= b, a < b and a = b as numbers.
Leq(a, b) ==
    LET m == IF a.e < b.e THEN a.e ELSE b.e
    IN  a.n * Pow10(a.e - m) * b.d <= b.n * Pow10(b.e - m) * a.d

Less(a, b) == ~Leq(b, a)

NumEq(a, b) == Leq(a, b) /\ Leq(b, a)

\* Python's min(a, b) and max(a, b): the first argument wins a tie.
PyMin(a, b) == IF Less(b, a) THEN b ELSE a

PyMax(a, b) == IF Less(a, b) THEN b ELSE a

Zero == Float(0)

\* ------------------------------------------------------------------------
\* xml_spectral_model_to_gammapy_params
\* ------------------------------------------------------------------------

\* The "@name" attributes the model draws from: the names of the FermiTools
\* XML models in their XML spelling, names the remapping table does not
\* hold ("alpha", "beta", "lambda_") and a name of no vocabulary ("foo").
RawNames ==
    {"Prefactor", "norm", "Integral", "Scale", "Eb", "BreakValue",
     "LowerLimit", "UpperLimit", "Cutoff", "Expfactor", "Index", "Index1",
     "IndexS", "Index2", "alpha", "beta", "lambda_", "foo"}

\* str.lower() on the names above.
Lower(s) ==
    CASE s = "Prefactor" -> "prefactor"
      [] s = "Integral" -> "integral"
      [] s = "Scale" -> "scale"
      [] s = "Eb" -> "eb"
      [] s = "BreakValue" -> "breakvalue"
      [] s = "LowerLimit" -> "lowerlimit"
      [] s = "UpperLimit" -> "upperlimit"
      [] s = "Cutoff" -> "cutoff"
      [] s = "Expfactor" -> "expfactor"
      [] s = "Index" -> "index"
      [] s = "Index1" -> "index1"
      [] s = "IndexS" -> "indexs"
      [] s = "Index2" -> "index2"
      [] s = "ExpfactorS" -> "expfactors"
      [] s = "Beta" -> "beta"
      [] OTHER -> s

SpectrumTypes ==
    {"PowerLaw", "LogParabola", "PLSuperExpCutoff", "PLSuperExpCutoff2",
     "PLSuperExpCutoff4"}

SuperExp12 == {"PLSuperExpCutoff", "PLSuperExpCutoff2"}

\* The names the remapping table of the translator knows (lower case).
RemapTable ==
    {"norm", "prefactor", "integral", "scale", "eb", "breakvalue",
     "lowerlimit", "upperlimit", "cutoff", "expfactor", "index", "index1",
     "indexs", "index2", "expfactors"}

\* new_par["name"] after the key loop: the table entry of the lower-cased
\* "@name", and the "@name" itself, as written, when the table has none.
NewName(rawName, spectrum_type) ==
    LET l == Lower(rawName)
    IN  CASE l \in {"norm", "prefactor", "integral"} -> "amplitude"
          [] l \in {"scale", "eb"} -> "reference"
          [] l = "breakvalue" -> "ebreak"
          [] l = "lowerlimit" -> "emin"
          [] l = "upperlimit" -> "emax"
          [] l \in {"cutoff", "expfactor"} -> "lambda_"
          [] l = "index" -> "index"
          [] l = "index1" ->
                IF spectrum_type \in SuperExp12 THEN "index" ELSE "index1"
          [] l = "indexs" -> "index_1"
          [] l = "index2" ->
                IF spectrum_type = "PLSuperExpCutoff4" THEN "index_2"
                ELSE IF spectrum_type \in SuperExp12 THEN "alpha"
                ELSE "index2"
          [] l = "expfactors" -> "expfactor"
          [] OTHER -> rawName

EnergyNames == {"reference", "ebreak", "emin", "emax"}

IndexNames == {"index", "index_1", "index_2", "beta"}

\* new_par["unit"] when the Parameter is built.
NewUnit(rawName, spectrum_type) ==
    LET l == Lower(rawName)
    IN  IF NewName(rawName, spectrum_type) \in EnergyNames THEN "TeV"
        ELSE IF l \in {"norm", "prefactor", "integral"} THEN "cm-2 s-1 TeV-1"
        ELSE IF l \in {"cutoff", "expfactor"} THEN "TeV-1"
        ELSE ""

\* new_par["is_norm"].
NewIsNorm(rawName) == Lower(rawName) \in {"norm", "prefactor", "integral"}

\* A variant of NewFrozen without the last override of the alpha parameter.
NewFrozenNoAlphaOverride(par, spectrum_type, is_target) ==
    IF Lower(par.name) \notin {"scale", "eb"}
    THEN (par.free = "0") /\ ~is_target
    ELSE par.free = "0"

\* new_par["frozen"]: from "@free" in the key loop, then the override for
\* alpha of the PLSuperExpCutoff families.
NewFrozen(par, spectrum_type, is_target) ==
    LET inLoop == IF Lower(par.name) \notin {"scale", "eb"}
                  THEN (par.free = "0") /\ ~is_target
                  ELSE par.free = "0"
    IN  IF NewName(par.name, spectrum_type) = "alpha"
           /\ spectrum_type \in SuperExp12
        THEN par.free = "0"
        ELSE inLoop

\* An optional attribute is the empty sequence or a sequence of one value:
\* the "@error" of a record and the error of a Parameter.
NoError == <<>>

HasError(par) == par.error # NoError

\* A variant of Rescaled that leaves the scale of the record out.
RescaledNoScale(par, factor) ==
    [value |-> Times(Float(par.value), factor),
     error |-> IF HasError(par)
               THEN <<Times(Float(par.error[1]), factor)>>
               ELSE NoError,
     min |-> Times(Float(par.min), factor),
     max |-> Times(Float(par.max), factor)]

\* The record scaled by a factor: value, error, min and max each times
\* scale times the factor.
Rescaled(par, factor) ==
    [value |-> Times(Times(Float(par.value), Float(par.scale)), factor),
     error |-> IF HasError(par)
               THEN <<Times(Times(Float(par.error[1]), Float(par.scale)), factor)>>
               ELSE NoError,
     min |-> Times(Times(Float(par.min), Float(par.scale)), factor),
     max |-> Times(Times(Float(par.max), Float(par.scale)), factor)]

\* The record as read, no scaling applied.
AsRead(par) ==
    [value |-> Float(par.value),
     error |-> IF HasError(par) THEN <<Float(par.error[1])>> ELSE NoError,
     min |-> Float(par.min),
     max |-> Float(par.max)]

\* The sign convention of the spectral indices (keep_sign false).
IndexSign(par) ==
    LET val_ == Times(Float(par.value), Float(par.scale))
        min_ == Neg(Times(Float(par.min), Float(par.scale)))
        max_ == Neg(Times(Float(par.max), Float(par.scale)))
    IN  IF Less(val_, Zero)
        THEN [AsRead(par) EXCEPT !.value = Neg(val_),
                                 !.min = PyMin(min_, max_),
                                 !.max = PyMax(min_, max_)]
        ELSE AsRead(par)

\* The lambda_ of PLSuperExpCutoff divides by value, min and max times scale.
LambdaDividesByZero(par) ==
    \/ IsZero(Times(Float(par.value), Float(par.scale)))
    \/ IsZero(Times(Float(par.min), Float(par.scale)))
    \/ IsZero(Times(Float(par.max), Float(par.scale)))

\* lambda_ of PLSuperExpCutoff: the reciprocal convention.
LambdaInverse(par) ==
    LET val_ == Times(Float(par.value), Float(par.scale))
        min_ == Over(Mega, Times(Float(par.min), Float(par.scale)))
        max_ == Over(Mega, Times(Float(par.max), Float(par.scale)))
    IN  [value |-> Over(Mega, val_),
         error |-> IF HasError(par)
                   THEN <<Over(Times(Mega, Float(par.error[1])), Times(val_, val_))>>
                   ELSE NoError,
         min |-> PyMin(min_, max_),
         max |-> PyMax(min_, max_)]

\* value, error, min and max of the record after "Some modifications on
\* scaling/sign".
Scaled(par, spectrum_type, keep_sign) ==
    LET name == NewName(par.name, spectrum_type)
    IN  CASE name \in EnergyNames -> Rescaled(par, Micro)
          [] name = "amplitude" -> Rescaled(par, Mega)
          [] name \in IndexNames /\ ~keep_sign -> IndexSign(par)
          [] name = "lambda_" /\ spectrum_type = "PLSuperExpCutoff" ->
                LambdaInverse(par)
          [] name = "lambda_" /\ spectrum_type = "PLSuperExpCutoff2" ->
                Rescaled(par, Mega)
          [] OTHER -> AsRead(par)

\* One pass of the loop over params: the outcome for one record.
Raises(par, spectrum_type) ==
    /\ NewName(par.name, spectrum_type) = "lambda_"
    /\ spectrum_type = "PLSuperExpCutoff"
    /\ LambdaDividesByZero(par)

\* The gammapy Parameter the loop appends for one record.
NewParam(par, spectrum_type, is_target, keep_sign) ==
    LET s == Scaled(par, spectrum_type, keep_sign)
    IN  [name |-> NewName(par.name, spectrum_type),
         value |-> s.value,
         error |-> s.error,
         min |-> s.min,
         max |-> s.max,
         unit |-> NewUnit(par.name, spectrum_type),
         frozen |-> NewFrozen(par, spectrum_type, is_target),
         is_norm |-> NewIsNorm(par.name)]

\* A variant of NewParams that drops the records whose name the remapping
\* table does not hold.
RECURSIVE NewParamsSkipUnknown(_, _, _, _)
NewParamsSkipUnknown(params, spectrum_type, is_target, keep_sign) ==
    IF params = <<>> THEN [status |-> "returned", params |-> <<>>]
    ELSE IF Raises(Head(params), spectrum_type)
    THEN [status |-> "ZeroDivisionError", params |-> <<>>]
    ELSE LET rest == NewParamsSkipUnknown(Tail(params), spectrum_type,
                                          is_target, keep_sign)
         IN  IF rest.status # "returned" THEN rest
             ELSE IF Lower(Head(params).name) \notin RemapTable THEN rest
             ELSE [status |-> "returned",
                   params |-> <<NewParam(Head(params), spectrum_type,
                                          is_target, keep_sign)>>
                               \o rest.params]

\* The whole function: the list of Parameters, or the error that ends it.
RECURSIVE NewParams(_, _, _, _)
NewParams(params, spectrum_type, is_target, keep_sign) ==
    IF params = <<>> THEN [status |-> "returned", params |-> <<>>]
    ELSE IF Raises(Head(params), spectrum_type)
    THEN [status |-> "ZeroDivisionError", params |-> <<>>]
    ELSE LET rest == NewParams(Tail(params), spectrum_type, is_target, keep_sign)
         IN  IF rest.status # "returned" THEN rest
             ELSE [status |-> "returned",
                   params |-> <<NewParam(Head(params), spectrum_type,
                                          is_target, keep_sign)>>
                               \o rest.params]

\* ------------------------------------------------------------------------
\* Strings that the code takes apart are sequences of characters
\* ------------------------------------------------------------------------

\* s.replace("_", "").replace(" ", "")
IsNameChar(c) == c \notin {"_", " "}

NameCheck(s) == SelectSeq(s, IsNameChar)

\* A variant of ReferenceOfFile that keeps the "-" of the file name.
ReferenceOfFileNoReplace(name) == SubSeq(name, 1, Len(name) - 8)

\* filename.name[:-8].replace("-", "_")
ReferenceOfFile(name) ==
    LET cut == SubSeq(name, 1, Len(name) - 8)
    IN  [i \in DOMAIN cut |-> IF cut[i] = "-" THEN "_" ELSE cut[i]]

\* ------------------------------------------------------------------------
\* The Target config
\* ------------------------------------------------------------------------

\* Target.source_name of the model: "a b".
TargetName == <<"a", " ", "b">>

\* The default filename, Path("."), and a custom EBL file "m-e.fits.gz".
DotPath == <<".">>

EblFile == <<"m", "-", "e", ".", "f", "i", "t", "s", ".", "g", "z">>

\* ebl_abs.reference: "" or a name; "dominguez" (the default) is one of the
\* tables EBLAbsorptionNormSpectralModel.read_builtin knows.
EmptyStr == <<>>

Dominguez == <<"d", "o", "m", "i", "n", "g", "u", "e", "z">>

BuiltinReferences == {Dominguez}

ECLP == "ExpCutoffLogParabolaSpectralModel"

EBLTag == "EBLAbsorptionNormSpectralModel"

\* The gammapy registries: get_cls(tag) raises KeyError for any other tag.
SPECTRAL_MODEL_REGISTRY ==
    {"PowerLawSpectralModel", "LogParabolaSpectralModel",
     "ExpCutoffPowerLawSpectralModel",
     "SuperExpCutoffPowerLaw4FGLDR3SpectralModel"}

SPATIAL_MODEL_REGISTRY ==
    {"PointSpatialModel", "TemplateSpatialModel", "GaussianSpatialModel"}

EBLAbsorptionModel == [filename : {DotPath, EblFile},
                       reference : {EmptyStr, Dominguez}]

SpectralModelConfig ==
    [type : {"PowerLawSpectralModel", ECLP, "NoSuchSpectralModel"},
     ebl_abs : EBLAbsorptionModel]

SpatialModelConfig == [type : {"", "PointSpatialModel", "NoSuchSpatialModel"}]

SkyModelComponent == [spectral : SpectralModelConfig, spatial : SpatialModelConfig]

\* components is a list; only index 0 is read.  The model has lists of no
\* and of one component.  ebl_abs is an EBLAbsorptionModel in every Target
\* (the field is not optional), so "ebl_abs is not None" holds wherever the
\* code asks.  The fields that no function writes or branches on
\* (sky_position, redshift, alpha_norm, the parameters) are left out.
Target ==
    [source_name : {TargetName}, from_3d : BOOLEAN,
     components : {<<>>} \cup {<<c>> : c \in SkyModelComponent}]

\* ------------------------------------------------------------------------
\* read_models_from_asgardpy_config
\* ------------------------------------------------------------------------

None == <<>>

Failed(kind, cfg) ==
    [status |-> kind, spectral |-> None, spatial |-> None, config |-> cfg]

\* The spectral class of a config type exists.
ConfigSpectralKnown(type) == type = ECLP \/ type \in SPECTRAL_MODEL_REGISTRY

\* A variant of Attenuated that takes every config as attenuated.
AttenuatedAlways(ebl_model) == TRUE

\* The config asks for the EBL attenuation of the spectral model.
Attenuated(ebl_model) == ebl_model.reference # EmptyStr

\* The outcome of read_models_from_asgardpy_config(cfg): the status (a
\* return or the exception), the two models and the config as the call
\* leaves it.  fs is the set of existing files, eblReadOk whether reading
\* the custom EBL file succeeds.
ReadModels(cfg, fs, eblReadOk) ==
    IF cfg.components = <<>> THEN Failed("IndexError", cfg)
    ELSE
    LET model_config == cfg.components[1]
        ebl_model == model_config.spectral.ebl_abs
        attenuated == Attenuated(ebl_model)
        is_file == ebl_model.filename \in fs
        updated == [cfg EXCEPT
                      !.components[1].spectral.ebl_abs.reference =
                          ReferenceOfFile(ebl_model.filename)]
        after == IF attenuated /\ is_file THEN updated ELSE cfg
    IN  IF ~ConfigSpectralKnown(model_config.spectral.type)
        THEN Failed("KeyError", cfg)
        ELSE IF attenuated /\ is_file /\ ~eblReadOk
        THEN Failed("ReadError", cfg)
        ELSE IF attenuated /\ ~is_file
                /\ ebl_model.reference \notin BuiltinReferences
        THEN Failed("KeyError", cfg)
        ELSE IF model_config.spatial.type # ""
                /\ model_config.spatial.type \notin SPATIAL_MODEL_REGISTRY
        THEN Failed("KeyError", after)
        ELSE [status |-> "returned",
              spectral |->
                  <<[models |-> IF attenuated
                                THEN <<model_config.spectral.type, EBLTag>>
                                ELSE <<model_config.spectral.type>>,
                     from |-> "config",
                     parameters |-> <<>>,
                     name |-> cfg.source_name]>>,
              spatial |-> IF model_config.spatial.type # ""
                          THEN <<model_config.spatial.type>>
                          ELSE None,
              config |-> after]

\* ------------------------------------------------------------------------
\* xml_spatial_model_to_gammapy
\* ------------------------------------------------------------------------

\* The outcome for the "@type" of the spatial block: the spatial model, an
\* unbound spatial_model at the return for a type of no branch, or the
\* failure of Map.read.
SpatialFromXml(type, mapReadOk) ==
    CASE type = "SkyDirFunction" ->
            [status |-> "returned", spatial |-> <<"PointSpatialModel">>]
      [] type = "SpatialMap" ->
            IF mapReadOk
            THEN [status |-> "returned", spatial |-> <<"TemplateSpatialModel">>]
            ELSE [status |-> "ReadError", spatial |-> None]
      [] type = "RadialGaussian" ->
            [status |-> "returned", spatial |-> <<"GaussianSpatialModel">>]
      [] OTHER -> [status |-> "UnboundLocalError", spatial |-> None]

\* ------------------------------------------------------------------------
\* create_source_skymodel
\* ------------------------------------------------------------------------

\* source["spectrum"]["@type"] as the pieces around "::": the marker
\* "EblAtten::", when there, and the spectrum type.
\* @type.split("EblAtten::")[-1]
SpectrumType(type) == type[Len(type)]

\* "EblAtten" in @type
HasEblAtten(type) == \E i \in DOMAIN type : type[i] = "EblAtten::"

\* spectrum_type_final
SpectrumTypeFinal(spectrum_type) ==
    CASE spectrum_type \in SuperExp12 -> "ExpCutoffPowerLawSpectralModel"
      [] spectrum_type = "PLSuperExpCutoff4" ->
            "SuperExpCutoffPowerLaw4FGLDR3SpectralModel"
      [] spectrum_type = "PowerLaw" -> "PowerLawSpectralModel"
      [] spectrum_type = "LogParabola" -> "LogParabolaSpectralModel"
      [] OTHER -> "NoSuchSpectralModel"

\* A variant of UseConfigSpectral with the from_3d flag read the other way.
UseConfigSpectralInverted(cfg, matches) == matches /\ cfg.from_3d

\* The target's spectral model is taken from the config.
UseConfigSpectral(cfg, matches) == matches /\ ~cfg.from_3d

NoModel == [name |-> <<>>, spectral |-> None, spatial |-> None]

Outcome(kind, matches, model, cfg) ==
    [status |-> kind, is_target |-> matches, model |-> model, config |-> cfg]

\* The outcome of create_source_skymodel(cfg, source, aux_path).
CreateSourceSkymodel(cfg, source, fs, eblReadOk, mapReadOk) ==
    LET spectrum_type == SpectrumType(source.type)
        matches == NameCheck(source.name) = NameCheck(cfg.source_name)
        source_name == IF matches THEN cfg.source_name ELSE source.name
        read == ReadModels(cfg, fs, eblReadOk)
        spatial == SpatialFromXml(source.spatial, mapReadOk)
        Finish(spectral_model, cfg2) ==
            IF spatial.status # "returned"
            THEN Outcome(spatial.status, matches, NoModel, cfg2)
            ELSE Outcome("returned", matches,
                         [name |-> source_name,
                          spectral |-> <<spectral_model>>,
                          spatial |-> spatial.spatial],
                         cfg2)
        ebl_atten_pl == spectrum_type = "LogParabola" /\ HasEblAtten(source.type)
        base == IF spectrum_type = "LogParabola"
                THEN IF ebl_atten_pl THEN "PowerLawSpectralModel"
                     ELSE "LogParabolaSpectralModel"
                ELSE SpectrumTypeFinal(spectrum_type)
        params_list == NewParams(source.spectrum, spectrum_type, matches,
                                 ebl_atten_pl)
    IN  IF UseConfigSpectral(cfg, matches)
        THEN IF read.status # "returned"
             THEN Outcome(read.status, matches, NoModel, read.config)
             ELSE Finish(read.spectral[1], read.config)
        ELSE IF SpectrumTypeFinal(spectrum_type) \notin SPECTRAL_MODEL_REGISTRY
        THEN Outcome("KeyError", matches, NoModel, cfg)
        ELSE IF params_list.status # "returned"
        THEN Outcome(params_list.status, matches, NoModel, cfg)
        ELSE IF cfg.components = <<>>
        THEN Outcome("IndexError", matches, NoModel, cfg)
        ELSE
        LET ebl_model == cfg.components[1].spectral.ebl_abs
            is_file == ebl_model.filename \in fs
            updated == [cfg EXCEPT
                          !.components[1].spectral.ebl_abs.reference =
                              ReferenceOfFile(ebl_model.filename)]
            plain == [models |-> <<base>>, from |-> "catalog",
                      parameters |-> params_list.params, name |-> <<>>]
        IN  IF ~matches THEN Finish(plain, cfg)
            ELSE IF is_file /\ ~eblReadOk
            THEN Outcome("ReadError", matches, NoModel, cfg)
            ELSE IF ~is_file /\ ebl_model.reference \notin BuiltinReferences
            THEN Outcome("KeyError", matches, NoModel, cfg)
            ELSE Finish([plain EXCEPT !.models = <<base, EBLTag>>],
                        IF is_file THEN updated ELSE cfg)

\* ------------------------------------------------------------------------
\* set_models
\* ------------------------------------------------------------------------

\* A SkyModel object as the heap holds it.  datasets_names is None or a list.
SkyModel(name, spectral) ==
    [name |-> name, spectral |-> spectral, datasets_names |-> None]

\* The name of the model in the YAML file that Models.read reads.
FileModelName == <<"f">>

\* The heap maps a place to the SkyModel object made there, if any: one
\* place for each catalog entry (its "@name"), one for the model that
\* set_models builds from the config and one for the model of the file.
FromConfig == <<"config">>

FromFile == <<"file">>

Live(hp) == {k \in DOMAIN hp : hp[k] # None}

Object(hp, k) == hp[k][1]

\* Models(models): a new collection of the same objects; gammapy refuses
\* two models of one name.
UniqueNames(hp, items) ==
    \A i, j \in DOMAIN items :
        i # j => Object(hp, items[i]).name # Object(hp, items[j]).name

Models(items) == [items |-> items, datasets_names |-> None]

\* The positions in the collection of the models with that name.
Named(hp, items, name) ==
    {i \in DOMAIN items : Object(hp, items[i]).name = name}

Bound(kind, cfg, hp, ds) ==
    [status |-> kind, config |-> cfg, heap |-> hp, datasets |-> ds]

\* A variant of Bind that attaches the collection before it looks up the
\* target model.
BindAttachFirst(cfg, cfg2, hp, ds, models, datasets_name_list, target_source_name) ==
    LET names == IF datasets_name_list = None THEN ds.names
                 ELSE datasets_name_list[1]
        target == IF target_source_name = None THEN cfg.source_name
                  ELSE target_source_name[1]
        hits == Named(hp, models.items, target)
        at == models.items[CHOOSE i \in hits : TRUE]
        attached == [ds EXCEPT !.models = <<models>>]
    IN  IF Len(models.items) > 1
        THEN IF hits = {} THEN Bound("ValueError", cfg2, hp, attached)
             ELSE Bound("returned", cfg2,
                        [hp EXCEPT ![at][1].datasets_names = <<names>>],
                        attached)
        ELSE Bound("returned", cfg2, hp,
                   [ds EXCEPT !.models =
                        <<[models EXCEPT !.datasets_names = <<names>>]>>])

\* A variant of Bind that gives the dataset names to every model of a
\* collection of more than one.
BindAll(cfg, cfg2, hp, ds, models, datasets_name_list, target_source_name) ==
    LET names == IF datasets_name_list = None THEN ds.names
                 ELSE datasets_name_list[1]
        target == IF target_source_name = None THEN cfg.source_name
                  ELSE target_source_name[1]
        hits == Named(hp, models.items, target)
        inside == {models.items[i] : i \in DOMAIN models.items}
    IN  IF Len(models.items) > 1
        THEN IF hits = {} THEN Bound("ValueError", cfg2, hp, ds)
             ELSE Bound("returned", cfg2,
                        [k \in DOMAIN hp |->
                            IF k \in inside
                            THEN <<[Object(hp, k) EXCEPT
                                       !.datasets_names = <<names>>]>>
                            ELSE hp[k]],
                        [ds EXCEPT !.models = <<models>>])
        ELSE Bound("returned", cfg2, hp,
                   [ds EXCEPT !.models =
                        <<[models EXCEPT !.datasets_names = <<names>>]>>])

\* Lines 187-200: the defaults, the assignment of the dataset names and the
\* attachment of the collection to the datasets.  cfg is the config as
\* passed and cfg2 the config as the first part of set_models left it.
\* With more than one model, models[target_source_name] is the model of
\* that name (a ValueError when there is none) and the list becomes its
\* datasets_names; otherwise datasets_names is set on models, which is the
\* Models collection, and not on the model inside it.
Bind(cfg, cfg2, hp, ds, models, datasets_name_list, target_source_name) ==
    LET names == IF datasets_name_list = None THEN ds.names
                 ELSE datasets_name_list[1]
        target == IF target_source_name = None THEN cfg.source_name
                  ELSE target_source_name[1]
        hits == Named(hp, models.items, target)
        at == models.items[CHOOSE i \in hits : TRUE]
    IN  IF Len(models.items) > 1
        THEN IF hits = {} THEN Bound("ValueError", cfg2, hp, ds)
             ELSE Bound("returned", cfg2,
                        [hp EXCEPT ![at][1].datasets_names = <<names>>],
                        [ds EXCEPT !.models = <<models>>])
        ELSE Bound("returned", cfg2, hp,
                   [ds EXCEPT !.models =
                        <<[models EXCEPT !.datasets_names = <<names>>]>>])

\* The outcome of set_models(config, datasets, datasets_name_list, models,
\* target_source_name): the status and the config, the heap and the datasets
\* as the call leaves them.  arg is the models argument: its kind and, for
\* a list, the objects of the list.
SetModels(cfg, hp, ds, datasets_name_list, arg, target_source_name, fs, eblReadOk, fileReadOk) ==
    LET read == ReadModels(cfg, fs, eblReadOk)
    IN  CASE arg.kind = "list" ->
                IF ~UniqueNames(hp, arg.items)
                THEN Bound("ValueError", cfg, hp, ds)
                ELSE Bind(cfg, cfg, hp, ds, Models(arg.items),
                          datasets_name_list, target_source_name)
          [] arg.kind = "DatasetModels" ->
                Bind(cfg, cfg, hp, ds, Models(ds.models[1].items),
                     datasets_name_list, target_source_name)
          [] arg.kind = "PathType" ->
                IF ~fileReadOk THEN Bound("ReadError", cfg, hp, ds)
                ELSE Bind(cfg, cfg,
                          [hp EXCEPT ![FromFile] =
                              <<SkyModel(FileModelName, None)>>],
                          ds, Models(<<FromFile>>), datasets_name_list,
                          target_source_name)
          [] OTHER ->
                IF Len(cfg.components) > 0
                THEN IF read.status # "returned"
                     THEN Bound(read.status, read.config, hp, ds)
                     ELSE Bind(cfg, read.config,
                               [hp EXCEPT ![FromConfig] =
                                   <<SkyModel(cfg.source_name, read.spectral)>>],
                               ds, Models(<<FromConfig>>), datasets_name_list,
                               target_source_name)
                ELSE Bound("TypeError", cfg, hp, ds)

\* ------------------------------------------------------------------------
\* The inputs
\* ------------------------------------------------------------------------

\* An XML parameter record: its attributes (the "@error" is optional).
XmlPars ==
    [name : RawNames, value : RawNums, scale : RawNums, min : RawNums,
     max : RawNums, free : {"0", "1"}, error : {NoError, <<1>>}]

Par(name, value, scale, free) ==
    [name |-> name, value |-> value, scale |-> scale, min |-> 0, max |-> 1,
     free |-> free, error |-> NoError]

\* The spectrum blocks of the catalog entries: a power law and a cutoff
\* power law whose Cutoff is 0.
PowerLawSpectrum ==
    <<Par("Prefactor", 1, 1, "1"), Par("Index", 1, 0 - 1, "1"),
      Par("Scale", 1, 1, "0")>>

CutoffSpectrum == <<Par("Prefactor", 1, 1, "1"), Par("Cutoff", 0, 1, "1")>>

Spectra == {PowerLawSpectrum, CutoffSpectrum}

\* A reference energy of 1e7 MeV with scale 1.
TenTeV ==
    [name |-> "Scale", value |-> 10000000, scale |-> 1, min |-> 0, max |-> 1,
     free |-> "0", error |-> NoError]

TargetEntry == <<"a", "_", "b">>

OtherEntry == <<"c">>

CatalogNames == {TargetEntry, <<"A", "_", "b">>, OtherEntry}

SourceTypes ==
    {<<"PowerLaw">>, <<"EblAtten::", "PowerLaw">>,
     <<"EblAtten::", "LogParabola">>, <<"PLSuperExpCutoff">>,
     <<"BandFunction">>}

SpatialTypes ==
    {"SkyDirFunction", "SpatialMap", "RadialGaussian", "ConstantValue"}

\* The catalog entries (source dicts of the XML file).
Sources ==
    [name : CatalogNames, type : SourceTypes, spectrum : Spectra,
     spatial : SpatialTypes]

\* The entries and the configs of the runs that bind models to datasets.
BoundSources ==
    [name : {TargetEntry, OtherEntry},
     type : {<<"PowerLaw">>, <<"BandFunction">>},
     spectrum : {PowerLawSpectrum}, spatial : {"SkyDirFunction"}]

BoundTargets ==
    {t \in Target :
        /\ ~t.from_3d
        /\ t.components # <<>> =>
              /\ t.components[1].spatial.type = ""
              /\ t.components[1].spectral.type = "PowerLawSpectralModel"
              /\ t.components[1].spectral.ebl_abs = [filename |-> EblFile,
                                                       reference |-> Dominguez]}

DatasetNames == <<"d1", "d2">>

Places == CatalogNames \cup {FromConfig, FromFile}

\* The models arguments of set_models: nothing, a YAML string, a path, the
\* collection attached to the datasets, or a list of live SkyModel objects.
ModelsArgs(hp, ds) ==
    [kind : {"None", "str", "PathType"}, items : {<<>>}]
    \cup [kind : {"list"},
          items : {<<>>} \cup {<<i>> : i \in Live(hp)}
                  \cup {<<i, j>> : i \in Live(hp), j \in Live(hp)}]
    \cup (IF ds.models = None THEN {}
          ELSE {[kind |-> "DatasetModels", items |-> <<>>]})

\* ------------------------------------------------------------------------
\* The state
\* ------------------------------------------------------------------------

VARIABLES
    params,          \* the argument params of the translator
    spectrum_type,   \* its spectrum_type
    is_target,       \* its is_target
    keep_sign,       \* its keep_sign
    xmlResult,       \* "pending" before the call, then what the call gave
    config,          \* the Target config
    files,           \* the files that exist
    heap,            \* the SkyModel objects the caller or the datasets hold
    datasets,        \* the Datasets: the names and the attached Models
    last             \* the call that just ended: arguments and outcome

xmlVars == <<params, spectrum_type, is_target, keep_sign, xmlResult>>

asmVars == <<config, files, heap, datasets, last>>

vars == <<params, spectrum_type, is_target, keep_sign, xmlResult,
          config, files, heap, datasets, last>>

NoCall == [op |-> "none", status |-> "none"]

\* No translator call is followed.
XmlIdle ==
    /\ params = <<>>
    /\ spectrum_type = "PowerLaw"
    /\ is_target = FALSE
    /\ keep_sign = FALSE
    /\ xmlResult = [status |-> "pending", params |-> <<>>]

AsmInit(targets) ==
    /\ config \in targets
    /\ files \in SUBSET {EblFile}
    /\ heap = [k \in Places |-> None]
    /\ datasets = [names |-> DatasetNames, models |-> None]
    /\ last = NoCall

\* The translator is followed on lists of one record: the loop treats every
\* record by itself.
XmlInit ==
    /\ params \in {<<p>> : p \in XmlPars \cup {TenTeV}}
    /\ spectrum_type \in SpectrumTypes
    /\ is_target \in BOOLEAN
    /\ keep_sign \in BOOLEAN
    /\ xmlResult = [status |-> "pending", params |-> <<>>]
    /\ config = [source_name |-> TargetName, from_3d |-> FALSE,
                 components |-> <<>>]
    /\ files = {}
    /\ heap = [k \in Places |-> None]
    /\ datasets = [names |-> DatasetNames, models |-> None]
    /\ last = NoCall

xml_spectral_model_to_gammapy_params ==
    /\ xmlResult.status = "pending"
    /\ xmlResult' = NewParams(params, spectrum_type, is_target, keep_sign)
    /\ UNCHANGED <<params, spectrum_type, is_target, keep_sign>>
    /\ UNCHANGED asmVars

XmlNext == xml_spectral_model_to_gammapy_params

SpecXml == XmlInit /\ [][XmlNext]_vars

\* Whether a read of a file succeeds is the file system's choice; a call
\* that reads no such file has nothing to choose.
ReadOutcomes(reads) == IF reads THEN BOOLEAN ELSE {TRUE}

\* A call starts when the caller has taken the outcome of the one before.
Idle == last = NoCall

\* The objects the attached collection holds.
Attached(ds) ==
    IF ds.models = None THEN {}
    ELSE {ds.models[1].items[i] : i \in DOMAIN ds.models[1].items}

\* create_source_skymodel on one of the entries; with keep the caller keeps
\* the SkyModel it got, in the place of the one it had for that entry.
create_source_skymodel(sources, keeps) ==
    /\ Idle
    /\ \E source \in sources, keep \in keeps, eblReadOk \in BOOLEAN :
        \E mapReadOk \in ReadOutcomes(source.spatial = "SpatialMap") :
        \E r \in {CreateSourceSkymodel(config, source, files, eblReadOk,
                                       mapReadOk)} :
            /\ keep => source.name \notin Attached(datasets)
            /\ config' = r.config
            /\ heap' = IF keep /\ r.status = "returned"
                       THEN [heap EXCEPT ![source.name] =
                                <<SkyModel(r.model.name, r.model.spectral)>>]
                       ELSE heap
            /\ last' = [op |-> "create_source_skymodel", status |-> r.status,
                        source |-> source, is_target |-> r.is_target,
                        model |-> r.model, before |-> config]
            /\ UNCHANGED <<files, datasets>>
            /\ UNCHANGED xmlVars

read_models_from_asgardpy_config ==
    /\ Idle
    /\ \E eblReadOk \in BOOLEAN :
        \E r \in {ReadModels(config, files, eblReadOk)} :
            /\ config' = r.config
            /\ last' = [op |-> "read_models_from_asgardpy_config",
                        status |-> r.status, spectral |-> r.spectral,
                        spatial |-> r.spatial, before |-> config]
            /\ UNCHANGED <<files, heap, datasets>>
            /\ UNCHANGED xmlVars

set_models ==
    /\ Idle
    /\ \E datasets_name_list \in {None, <<<<"d1">>>>},
          target_source_name \in {None, <<OtherEntry>>},
          arg \in ModelsArgs(heap, datasets) :
        \E eblReadOk \in ReadOutcomes(arg.kind \in {"None", "str"}),
           fileReadOk \in ReadOutcomes(arg.kind = "PathType") :
        \E r \in {SetModels(config, heap, datasets, datasets_name_list, arg,
                            target_source_name, files, eblReadOk, fileReadOk)} :
            /\ arg.kind = "PathType" => FromFile \notin Attached(datasets)
            /\ arg.kind \in {"None", "str"} =>
                  FromConfig \notin Attached(datasets)
            /\ config' = r.config
            /\ heap' = r.heap
            /\ datasets' = r.datasets
            /\ last' = [op |-> "set_models", status |-> r.status, arg |-> arg,
                        datasets_name_list |-> datasets_name_list,
                        target_source_name |-> target_source_name,
                        before |-> config]
            /\ UNCHANGED files
            /\ UNCHANGED xmlVars

\* The caller takes the outcome of the call.
take_outcome ==
    /\ ~Idle
    /\ last' = NoCall
    /\ UNCHANGED <<config, files, heap, datasets>>
    /\ UNCHANGED xmlVars

\* The assembly of the models of the catalog entries.
AsmNext ==
    \/ create_source_skymodel(Sources, {FALSE})
    \/ read_models_from_asgardpy_config
    \/ take_outcome

AsmStart == XmlIdle /\ AsmInit(Target)

SpecAsm == AsmStart /\ [][AsmNext]_vars

\* Assembly and binding.
Init == XmlIdle /\ AsmInit(BoundTargets)

Next ==
    \/ create_source_skymodel(BoundSources, {TRUE})
    \/ read_models_from_asgardpy_config
    \/ set_models
    \/ take_outcome

Spec == Init /\ [][Next]_vars

\* ------------------------------------------------------------------------
\* Properties of xml_spectral_model_to_gammapy_params (under SpecXml)
\* ------------------------------------------------------------------------

Returned == xmlResult.status = "returned"

\* The records of the call and, once it returned, the Parameter of each.
Records == DOMAIN params

Emitted(i) == xmlResult.params[i]

\* C1: with keep_sign false, every Parameter with an index-like name (index,
\* index_1, index_2, beta) has value >= 0 and min <= max, whatever the signs
\* of the raw value, scale, min and max.
C1_IndexNonNegativeOrdered ==
    (Returned /\ ~keep_sign /\ Len(xmlResult.params) = Len(params)) =>
        \A i \in Records :
            Emitted(i).name \in IndexNames =>
                /\ Leq(Zero, Emitted(i).value)
                /\ Leq(Emitted(i).min, Emitted(i).max)

\* C2: every Parameter the translator returns has min <= max.
C2_MinLeqMax ==
    Returned =>
        \A i \in DOMAIN xmlResult.params :
            Leq(xmlResult.params[i].min, xmlResult.params[i].max)

FromReferenceField(i) == Lower(params[i].name) \in {"scale", "eb"}

\* C3 as stated: for a non-target entry every Parameter is frozen exactly
\* when its free flag is "0"; for the target a Parameter from a scale/eb
\* field is frozen exactly when its free flag is "0" and every other
\* Parameter has frozen = FALSE.
C3_FrozenRule ==
    (Returned /\ Len(xmlResult.params) = Len(params)) =>
        \A i \in Records :
            IF ~is_target \/ FromReferenceField(i)
            THEN Emitted(i).frozen = (params[i].free = "0")
            ELSE Emitted(i).frozen = FALSE

AlphaOfSuperExp(i) ==
    Emitted(i).name = "alpha" /\ spectrum_type \in SuperExp12

\* C3 amended: as C3, except that for the target the Parameter named alpha
\* of the families PLSuperExpCutoff and PLSuperExpCutoff2 is, like the
\* reference, frozen exactly when its free flag is "0".
C3_FrozenRuleAmended ==
    (Returned /\ Len(xmlResult.params) = Len(params)) =>
        \A i \in Records :
            IF ~is_target \/ FromReferenceField(i) \/ AlphaOfSuperExp(i)
            THEN Emitted(i).frozen = (params[i].free = "0")
            ELSE Emitted(i).frozen = FALSE

\* The target's alpha of a PLSuperExpCutoff family with free = "0" came out
\* frozen.
C3_Witness ==
    /\ Returned
    /\ is_target
    /\ \E i \in Records :
          /\ params[i].name = "Index2"
          /\ params[i].free = "0"
          /\ AlphaOfSuperExp(i)
          /\ Emitted(i).frozen

Unrecognized(i) == Lower(params[i].name) \notin RemapTable

RawScaled(raw, i, factor) ==
    Times(Times(Float(raw), Float(params[i].scale)), factor)

\* value, min, max and, when the record has one, error of the Parameter are
\* the raw numbers times scale times the factor.
ScaledBy(i, factor) ==
    /\ NumEq(Emitted(i).value, RawScaled(params[i].value, i, factor))
    /\ NumEq(Emitted(i).min, RawScaled(params[i].min, i, factor))
    /\ NumEq(Emitted(i).max, RawScaled(params[i].max, i, factor))
    /\ IF HasError(params[i])
       THEN /\ Emitted(i).error # NoError
            /\ NumEq(Emitted(i).error[1],
                     RawScaled(params[i].error[1], i, factor))
       ELSE Emitted(i).error = NoError

AmplitudeField(i) == Lower(params[i].name) \in {"norm", "prefactor", "integral"}

\* C12: a Parameter with an energy-like name (reference, ebreak, emin, emax)
\* has unit TeV and value, min, max and error equal to the raw number times
\* scale times 1e-6; a Parameter from an amplitude field (norm, prefactor,
\* integral) has them equal to the raw number times scale times 1e6; the
\* raw reference energy 1e7 with scale 1 comes out as 10.
C12_UnitScaling ==
    Returned =>
        \A i \in Records :
            /\ Emitted(i).name \in EnergyNames =>
                  /\ Emitted(i).unit = "TeV"
                  /\ ScaledBy(i, Micro)
            /\ AmplitudeField(i) =>
                  /\ Emitted(i).name = "amplitude"
                  /\ ScaledBy(i, Mega)
            /\ params[i] = TenTeV => NumEq(Emitted(i).value, Float(10))

\* The reference energy 1e7 MeV with scale 1 came out as 10 TeV.
C12_Witness ==
    /\ Returned
    /\ params = <<TenTeV>>
    /\ Emitted(1).name = "reference"
    /\ Emitted(1).unit = "TeV"
    /\ NumEq(Emitted(1).value, Float(10))

\* The record gives the lambda_ of one of the two families with a
\* convention of its own.
LambdaOfSuperExp(i) ==
    /\ NewName(params[i].name, spectrum_type) = "lambda_"
    /\ spectrum_type \in SuperExp12

\* The reciprocal convention: value 1e6/(value*scale), error
\* 1e6*error/(value*scale)^2, bounds 1e6/(min*scale) and 1e6/(max*scale) in
\* order.
Reciprocal(i) ==
    LET val_ == RawScaled(params[i].value, i, Float(1))
        min_ == Over(Mega, RawScaled(params[i].min, i, Float(1)))
        max_ == Over(Mega, RawScaled(params[i].max, i, Float(1)))
    IN  /\ NumEq(Emitted(i).value, Over(Mega, val_))
        /\ Leq(Emitted(i).min, Emitted(i).max)
        /\ \/ NumEq(Emitted(i).min, min_) /\ NumEq(Emitted(i).max, max_)
           \/ NumEq(Emitted(i).min, max_) /\ NumEq(Emitted(i).max, min_)
        /\ IF HasError(params[i])
           THEN /\ Emitted(i).error # NoError
                /\ NumEq(Emitted(i).error[1],
                         Over(Times(Mega, Float(params[i].error[1])),
                              Times(val_, val_)))
           ELSE Emitted(i).error = NoError

\* C13: the lambda_ convention follows the family: reciprocal for
\* PLSuperExpCutoff, raw number times scale times 1e6 for PLSuperExpCutoff2;
\* and every such record, a raw value or bound of 0 included, ends in a
\* Parameter and not in a failure.
C13_LambdaConvention ==
    xmlResult.status # "pending" =>
        \A i \in Records :
            LambdaOfSuperExp(i) =>
                /\ Returned
                /\ IF spectrum_type = "PLSuperExpCutoff"
                   THEN Reciprocal(i)
                   ELSE ScaledBy(i, Mega)

\* The factor of the unit conversion of a Parameter, 1 where there is none.
UnitFactor(i) ==
    IF Emitted(i).name \in EnergyNames THEN Micro
    ELSE IF Emitted(i).name = "amplitude"
            \/ (Emitted(i).name = "lambda_"
                /\ spectrum_type = "PLSuperExpCutoff2")
    THEN Mega
    ELSE Float(1)

\* The Parameter follows a convention that is more than a factor: the sign
\* flip of an index whose value*scale is negative, or the reciprocal
\* lambda_.
SignOrReciprocal(i) ==
    \/ /\ Emitted(i).name \in IndexNames
       /\ ~keep_sign
       /\ Less(RawScaled(params[i].value, i, Float(1)), Zero)
    \/ Emitted(i).name = "lambda_" /\ spectrum_type = "PLSuperExpCutoff"

\* C15: the scale of the record is folded into every Parameter: value, min
\* and max are the raw numbers times scale (times the unit factor where
\* there is one), for every name and family, the index-like names with
\* value*scale >= 0 and the names passed through unchanged included.
C15_ScaleFolded ==
    Returned =>
        \A i \in Records :
            ~SignOrReciprocal(i) =>
                /\ NumEq(Emitted(i).value,
                         RawScaled(params[i].value, i, UnitFactor(i)))
                /\ NumEq(Emitted(i).min,
                         RawScaled(params[i].min, i, UnitFactor(i)))
                /\ NumEq(Emitted(i).max,
                         RawScaled(params[i].max, i, UnitFactor(i)))

\* ------------------------------------------------------------------------
\* Properties of the assembly (under SpecAsm)
\* ------------------------------------------------------------------------

Created == last.op = "create_source_skymodel" /\ last.status = "returned"

\* The entry of the call names the target: the names are equal once "_"
\* and " " are taken out.
NamesTarget ==
    SelectSeq(last.source.name, IsNameChar)
        = SelectSeq(last.before.source_name, IsNameChar)

CreatedSpectral == last.model.spectral[1]

\* C5: when the entry names the target, from_3d is false and the config has
\* a component, a create_source_skymodel that returns gives is_target = TRUE
\* and the spectral model that read_models_from_asgardpy_config builds from
\* the config; no catalog parameter is translated or applied to it.
C5_TargetSpectralFromConfig ==
    (/\ Created
     /\ NamesTarget
     /\ ~last.before.from_3d
     /\ last.before.components # <<>>) =>
        /\ last.is_target
        /\ CreatedSpectral.from = "config"
        /\ CreatedSpectral.parameters = <<>>
        /\ CreatedSpectral.models[1] = last.before.components[1].spectral.type
        /\ \E ok \in BOOLEAN :
              /\ ReadModels(last.before, files, ok).status = "returned"
              /\ last.model.spectral = ReadModels(last.before, files, ok).spectral

\* The entry "a_b" of a catalog was assembled for the target "a b" with the
\* spectral model of the config.
C5_Witness ==
    /\ Created
    /\ last.source.name = TargetEntry
    /\ last.source.spectrum = PowerLawSpectrum
    /\ ~last.before.from_3d
    /\ last.is_target
    /\ CreatedSpectral.from = "config"

AttenuatedTarget ==
    Created /\ last.is_target /\ HasEblAtten(last.source.type)

\* C6 as stated: for the target entry with the "EblAtten::" marker the
\* spectral model is a product of exactly two models and the SkyModel has
\* the source name, with the base from the config and from the catalog.
C6_MarkedTargetIsProduct ==
    AttenuatedTarget =>
        /\ Len(CreatedSpectral.models) = 2
        /\ last.model.name = last.before.source_name

\* C6 amended: for the target entry with the marker the SkyModel has the
\* source name of the config; the spectral model is a product of exactly
\* two models (base and EBL absorption) when the base comes from the
\* catalog (from_3d true) and, when it comes from the config (from_3d
\* false), exactly when ebl_abs.reference of the config is not empty: with
\* an empty reference it is the base model alone.
C6_ProductFollowsConfig ==
    AttenuatedTarget =>
        /\ last.model.name = last.before.source_name
        /\ IF last.before.from_3d
              \/ last.before.components[1].spectral.ebl_abs.reference # EmptyStr
           THEN /\ Len(CreatedSpectral.models) = 2
                /\ CreatedSpectral.models[2] = EBLTag
           ELSE Len(CreatedSpectral.models) = 1

\* A marked target entry came out of the config with an empty reference as
\* one model, and one came out of the catalog as a product.
C6_Witness ==
    /\ AttenuatedTarget
    /\ ~last.before.from_3d
    /\ last.before.components[1].spectral.ebl_abs.reference = EmptyStr
    /\ Len(CreatedSpectral.models) = 1

\* C7 as stated: no call of the assembly changes the Target config.
C7_ConfigNeverMutated == [][config' = config]_vars

\* C7 amended: a call of the assembly changes nothing of the Target config
\* but components[0].spectral.ebl_abs.reference, and that only when the
\* filename of ebl_abs is an existing file: the reference is then the name
\* of the file without its last 8 characters, "-" replaced by "_" ("m_e"
\* for "m-e.fits.gz").
C7_OnlyReferenceUpdated ==
    [][config' # config =>
          /\ config.components # <<>>
          /\ config.components[1].spectral.ebl_abs.filename = EblFile
          /\ EblFile \in files
          /\ config' = [config EXCEPT
                          !.components[1].spectral.ebl_abs.reference =
                              <<"m", "_", "e">>]]_vars

\* A call that read the custom EBL file left its name as the reference.
C7_Witness ==
    /\ last.op \in {"create_source_skymodel", "read_models_from_asgardpy_config"}
    /\ last.status = "returned"
    /\ last.before.components[1].spectral.ebl_abs.reference = Dominguez
    /\ config.components[1].spectral.ebl_abs.reference = <<"m", "_", "e">>

\* The catalog entry of the call has a spectrum type of no registered
\* spectral family, or a spatial block of none of the three types (and the
\* config has the component that every call reads).
UnknownCatalogTag(s) ==
    /\ s.op = "create_source_skymodel"
    /\ s.before.components # <<>>
    /\ \/ SpectrumTypeFinal(SpectrumType(s.source.type))
              \notin SPECTRAL_MODEL_REGISTRY
       \/ s.source.spatial
              \notin {"SkyDirFunction", "SpatialMap", "RadialGaussian"}

\* The config of the call has a spectral or spatial type the registry does
\* not hold.
UnknownConfigTag(s) ==
    /\ s.op = "read_models_from_asgardpy_config"
    /\ s.before.components # <<>>
    /\ \/ ~ConfigSpectralKnown(s.before.components[1].spectral.type)
       \/ /\ s.before.components[1].spatial.type # ""
          /\ s.before.components[1].spatial.type \notin SPATIAL_MODEL_REGISTRY

\* C14: a call with an unrecognized family tag, of the catalog entry in
\* create_source_skymodel or of the config in
\* read_models_from_asgardpy_config, ends in an error of kind ModelTypeError:
\* never in a returned model, never in an error of another kind.
C14_UnknownTagIsModelTypeError ==
    (UnknownCatalogTag(last) \/ UnknownConfigTag(last)) =>
        last.status = "ModelTypeError"

\* ------------------------------------------------------------------------
\* Properties of set_models (under Spec)
\* ------------------------------------------------------------------------

\* What the datasets hold: the attached collection and its objects.
AttachedModels(ds, hp) ==
    [models |-> ds.models, objects |-> [k \in Attached(ds) |-> hp[k]]]

\* C8: the models attached to the datasets change only in a set_models call
\* that returns; a call that fails, and every call of the assembly, leaves
\* them as they were.
C8_OnlyReturningSetModelsAttaches ==
    [][AttachedModels(datasets', heap') # AttachedModels(datasets, heap) =>
          last'.op = "set_models" /\ last'.status = "returned"]_vars

\* A set_models call failed for want of the target name in a collection of
\* two, with a collection attached before.
C8_Witness ==
    /\ last.op = "set_models"
    /\ last.status = "ValueError"
    /\ last.arg.kind = "list"
    /\ Len(last.arg.items) = 2
    /\ datasets.models # None

SetModelsReturned(s) == s.op = "set_models" /\ s.status = "returned"

GivenNames(s, ds) ==
    IF s.datasets_name_list = None THEN ds.names ELSE s.datasets_name_list[1]

GivenTarget(s) ==
    IF s.target_source_name = None THEN s.before.source_name
    ELSE s.target_source_name[1]

\* C9: set_models with a collection of more than one model gives the
\* dataset names to the model named as the target source and leaves the
\* datasets_names of every other model as they were.
C9_OnlyTargetGetsNames ==
    [][(SetModelsReturned(last') /\ Len(datasets'.models[1].items) > 1) =>
          \A k \in Live(heap) :
              IF /\ \E i \in DOMAIN datasets'.models[1].items :
                        datasets'.models[1].items[i] = k
                 /\ heap[k][1].name = GivenTarget(last')
              THEN heap'[k][1].datasets_names = <<GivenNames(last', datasets)>>
              ELSE heap'[k] = heap[k]]_vars

\* Two models were bound: the target has the dataset names and the other
\* has none.
C9_Witness ==
    /\ SetModelsReturned(last)
    /\ Len(datasets.models[1].items) = 2
    /\ \E k \in Live(heap), o \in Live(heap) :
          /\ heap[k][1].name = GivenTarget(last)
          /\ heap[k][1].datasets_names = <<DatasetNames>>
          /\ heap[o][1].name # GivenTarget(last)
          /\ heap[o][1].datasets_names = None

\* C10: after set_models with a collection of one model and no
\* datasets_name_list, the datasets_names of that model are the names of all
\* the datasets, and the collection is attached.
C10_SoleModelGetsAllNames ==
    (SetModelsReturned(last) /\ last.datasets_name_list = None) =>
        /\ datasets.models # None
        /\ Len(datasets.models[1].items) = 1 =>
              heap[datasets.models[1].items[1]][1].datasets_names
                  = <<datasets.names>>

\* The models argument of the call is of none of the types that set_models
\* reads (a collection, a list, a path): here a YAML string.
UnsupportedModelsArg(s) == s.op = "set_models" /\ s.arg.kind = "str"

\* C11: set_models with a models argument of an unsupported type (a YAML
\* string) fails with TypeError whatever the config holds, and the model
\* that set_models builds from the config is not attached in its place.
C11_UnsupportedTypeRaises ==
    UnsupportedModelsArg(last) =>
        /\ last.status = "TypeError"
        /\ FromConfig \notin Attached(datasets)


====
